---- MODULE Spec2Model ----
(***************************************************************************)
(* State-machine model of the thistle-gulch bridge: Runtime.send_message   *)
(* (the emit lock, the transport acknowledgement callback, the timeout),   *)
(* the API wrappers that call it, the simulation-ready / simulation-event  *)
(* endpoints and the incoming message router.                              *)
(***************************************************************************)
EXTENDS Integers, Sequences, FiniteSets, TLC

\* ------------------------------------------------------------------ bounds
NumCallers == 2        \* coroutines of external code that call the API
MaxCalls == 6          \* send_message calls that generate a reference
MaxCallerCalls == 2    \* of those, the calls made by the caller coroutines
MaxHookCalls == 1      \* API calls made by one on_ready hook invocation
MaxPersonaCalls == 1   \* API calls of the persona configuration loop
MaxTickCalls == 3      \* API calls made by on_tick hooks
MaxReady == 1          \* simulation-ready frames
MaxChildren == 3       \* child processes alive at once

\* ------------------------------------------------------- program constants
DefaultTimeout == 5    \* send_message(..., timeout=5)

Callers == 1..NumCallers
Ready == 0             \* the coroutine running OnReadyEndpoint.handle_request
\* The coroutines handling simulation-tick frames: the transport starts
\* the "messages" handler of each inbound frame as a coroutine of its own.
TickTasks == {0 - 1, 0 - 2}
Procs == Callers \cup {Ready} \cup TickTasks

NoSid == "None"
NoRef == 0

PlainCmds == {"pause", "resume", "request-world-context",
              "update-character-properties", "set-start-date"}
FutureCmds == {"modal", "override-character-action"}

VARIABLES
    sid,          \* Runtime.sid
    locked,       \* Runtime.emit_lock: held or not
    waiters,      \* Runtime.emit_lock: coroutines queued in acquire(), FIFO
    lockFault,    \* emit_lock.release() was called on an unheld lock
    calls,        \* one record per send_message call that got a reference
    callbacks,    \* references whose acknowledgement callback the transport holds
    wire,         \* references of the commands emitted, in transport order
    pc,           \* position of each coroutine inside send_message
    cur,          \* the reference of each coroutine's current call
    outcome,      \* how each coroutine's last call ended
    callerCalls,  \* number of API calls made by caller coroutines
    hooks,        \* the RuntimeBridge.on_* attributes that are set (not None)
    routes,       \* IncomingMessageRouter.routes: message type -> endpoint
    event_futures, \* the attribute Runtime.event_futures, when it exists
    frame,        \* the last inbound message handled, and what came of it
    persona_configs, \* RuntimeBridge.persona_configs, one kind per persona
    rstage,       \* position of OnReadyEndpoint.handle_request
    readyCount,   \* simulation-ready frames received
    runtime_version, \* the runtime_version of the last simulation-ready frame
    personaLeft,  \* persona configurations not yet applied
    hookCalls,    \* API calls made by the running on_ready hook
    hookResult,   \* what the on_ready hook returned
    readyResp,    \* what handle_message returned for the ready frame
    start_date,   \* Runtime.start_date: unset, or where its value came from
    transport,    \* the runtime's socket: never opened, up, or down
    serving,      \* RuntimeBridge.run: not called, serving, stopped, raised
    process,      \* Runtime.process: none, running, or terminated
    config,       \* BridgeConfig.runtime_path set or not, and the entry point
    lastRoute,    \* the route of the last add_route call
    children,     \* the child processes Runtime.start spawned, still alive
    processCall   \* the last direct Runtime.start / terminate call

\* The references of the calls made, and those the runtime has been given:
\* the references of the commands emitted.
Refs == 1..Len(calls)
Emitted == {wire[i] : i \in 1..Len(wire)}

sendVars == <<calls, locked, waiters, pc, cur, outcome>>
transportVars == <<callbacks, wire>>
readyVars == <<rstage, readyCount, runtime_version, personaLeft, hookCalls, hookResult,
               readyResp>>
serveVars == <<serving, process, config, lastRoute, children, processCall>>
configVars == <<hooks, persona_configs, start_date, transport, serveVars>>
frameVars == <<routes, event_futures, frame>>

vars == <<sid, locked, waiters, lockFault, calls, callbacks, wire, pc, cur,
          outcome, callerCalls, hooks, routes, event_futures, frame,
          persona_configs, rstage, readyCount, runtime_version, personaLeft,
          hookCalls,
          hookResult, readyResp, start_date, transport, serving, process,
          config, lastRoute, children, processCall>>

\* ------------------------------------------------------------ __init__.py
\* GenericMessage("error", error=error), unstructured (lines 186-188).
NoneValue == "None"
ErrorEnvelopeBlank(err) ==
    [type |-> "error", data |-> <<>>, reference |-> NoRef, error |-> <<>>]
ErrorEnvelope(err) ==
    [type |-> "error", data |-> <<>>, reference |-> NoRef, error |-> err]

\* handle_message returns None: nothing is sent back.
NoReply == [type |-> NoneValue, data |-> <<>>, reference |-> NoRef,
            error |-> <<>>]

\* The handler has not returned yet.
PendingReply == [type |-> "pending", data |-> <<>>, reference |-> NoRef,
                 error |-> <<>>]

\* Lines 176-177: any exception raised while processing the request.
ProcessingError(msg) == <<"Error processing request: ">> \o msg

\* Lines 170-175: the two errors with a text of their own.
DecodeError == <<"Error decoding JSON: ">>
ValidationError == <<"Error validating request: ">>

\* RuntimeBridge.__init__ registers the four lifecycle routes.
InitialRoutes ==
    [t \in {"simulation-ready", "simulation-tick", "simulation-event",
            "simulation-error"} |->
        CASE t = "simulation-ready" -> "OnReadyEndpoint"
          [] t = "simulation-tick" -> "OnSimulationTickEndpoint"
          [] t = "simulation-event" -> "OnSimulationEventEndpoint"
          [] OTHER -> "OnSimulationErrorEndpoint"]

\* No add_route call was made after RuntimeBridge.__init__.
NoRoute == [type |-> NoneValue, endpoint |-> NoneValue]

\* BridgeConfig: runtime_path defaults to None; the package entry point
\* (thistle_gulch/__init__.py, `bridge.main()`) runs the bridge itself.
NoProcessCall == [op |-> "none", spawned |-> 0, raised |-> FALSE]
DefaultConfig == [runtime_path |-> FALSE, entry |-> "bridge.main"]

\* IncomingMessageRouter.add_route: self.routes[route.msg_type] = route.
AddedRouteKeepFirst(rs, t, e) ==
    [x \in DOMAIN rs \cup {t} |-> IF x \in DOMAIN rs THEN rs[x] ELSE e]
AddedRoute(rs, t, e) ==
    [x \in DOMAIN rs \cup {t} |-> IF x = t THEN e ELSE rs[x]]

\* The hooks RuntimeBridge.__init__ sets: only the logging on_error.
DefaultHooks == {"on_error"}

\* Runtime.__init__ creates no event_futures attribute.
NoAttribute == [defined |-> FALSE, refs |-> {}]

NoMessage == [json |-> "none", type |-> NoneValue, reference |-> NoRef,
              event_name |-> "", has_data |-> FALSE, shape_ok |-> FALSE]
\* frame.seen: the references of the simulation-event frames handled before
\* the last one.
\* frame.paused: the simulation was paused when the frame was handled.
\* frame.routed: the frame's type had a route when it was handled.
\* frame.custom: what the code outside the bridge did if the frame got there.
NoFrame == [msg |-> NoMessage, reply |-> NoReply, invoked |-> <<>>,
            resolved |-> NoRef, seen |-> {}, paused |-> FALSE,
            routed |-> FALSE, endpoint |-> NoneValue, custom |-> "none"]

\* API.pause and API.resume (api.py 26-55): the simulation is paused from
\* the acknowledgement of a pause command until the next resume command.
PauseAcked(r) ==
    /\ calls[r].cmd = "pause"
    /\ calls[r].fut = "result"
    /\ calls[r].resp.kind = "ok"

Paused ==
    \E i \in 1..Len(wire) :
        /\ PauseAcked(wire[i])
        /\ \A j \in (i + 1)..Len(wire) : calls[wire[j]].cmd # "resume"


\* ------------------------------------------------------------ bridge.py
\* The specific hook of OnSimulationEventEndpoint for an event name.
SpecificHook(name) ==
    CASE name = "on-action-complete" -> "on_action_complete"
      [] name = "on-character-focused" -> "on_character_focused"
      [] name = "on-character-unfocused" -> "on_character_unfocused"
      [] name = "on-sim-object-selected" -> "on_sim_object_selected"
      [] OTHER -> "none"

\* OnSimulationEventEndpoint.handle_request (lines 302-385) on message msg:
\* what it raises, the future it resolves, the hooks it calls in order, and
\* the response it returns.
EventHandle(msg) ==
    IF ~event_futures.defined
    THEN [raised |-> TRUE,
          error |-> <<"'Runtime' object has no attribute ", "'event_futures'">>,
          resolved |-> NoRef, invoked |-> <<>>, result |-> NoReply]
    ELSE LET matched == msg.reference \in event_futures.refs
             specific ==
                 IF /\ ~matched
                    /\ SpecificHook(msg.event_name) \in hooks
                    /\ msg.has_data
                 THEN <<SpecificHook(msg.event_name)>> ELSE <<>>
             generic == IF "on_event" \in hooks THEN <<"on_event">> ELSE <<>>
         IN [raised |-> FALSE, error |-> <<>>,
             resolved |-> IF matched THEN msg.reference ELSE NoRef,
             invoked |-> specific \o generic,
             result |-> [type |-> "simulation-event-response", data |-> <<>>,
                         reference |-> msg.reference, error |-> <<>>]]

\* OnSimulationTickEndpoint.handle_request (lines 283-294): with an on_tick
\* hook set, the frame's current_time is structured as a datetime (which
\* raises when it is missing) and the hook awaited. Returns None.
TickHandle(msg, custom) ==
    IF "on_tick" \notin hooks
    THEN [raised |-> FALSE, error |-> <<>>, invoked |-> <<>>]
    ELSE IF ~msg.has_data
    THEN [raised |-> TRUE, error |-> <<"fromisoformat: argument must be str">>,
          invoked |-> <<>>]
    ELSE [raised |-> custom = "raise",
          error |-> IF custom = "raise" THEN <<"hook failed">> ELSE <<>>,
          invoked |-> <<"on_tick">>]

\* OnSimulationErrorEndpoint.handle_request (lines 393-404): awaits on_error
\* with the frame's error text ("" when missing). Returns None.
ErrorHandleSilent(msg, custom) ==
    [raised |-> FALSE, error |-> <<>>, invoked |-> <<>>]
ErrorHandle(msg, custom) ==
    IF "on_error" \notin hooks
    THEN [raised |-> FALSE, error |-> <<>>, invoked |-> <<>>]
    ELSE [raised |-> custom = "raise",
          error |-> IF custom = "raise" THEN <<"hook failed">> ELSE <<>>,
          invoked |-> <<"on_error">>]

\* TGActionsEndpoint and TGConversationEndpoint (lines 85-113, 133-164):
\* the agent's answer, or the text of what it raised, goes back in a
\* response that carries the reference of the request.
AgentEndpoints == {"TGActionsEndpoint", "TGConversationEndpoint"}
AgentTypes == {"generate-actions", "generate-conversation"}

\* What the agent does with a request: answers, raises an exception with a
\* message, raises one without (str(e) is then the empty string), or
\* answers with a generation error.
AgentOutcomes == {"none", "raise", "raise_blank", "generation_error"}

\* str(e) at lines 109-112 and 160-163.  A string is the sequence of its
\* pieces: <<>> stands for None and <<"">> for the empty string.
ExceptionStr(custom) ==
    IF custom = "raise" THEN <<"agent failed">> ELSE <<"">>

AgentHandle(msg, custom) ==
    [type |-> "response", data |-> <<>>, reference |-> msg.reference,
     error |-> CASE custom \in {"raise", "raise_blank"} ->
                        ExceptionStr(custom)
                 [] custom = "generation_error" ->
                        <<"Generation Error: ", "no valid action">>
                 [] OTHER -> <<>>]

\* RuntimeBridge.run (lines 618-640) and external code: the endpoint that
\* is registered for a message type.
EndpointFor(t) ==
    CASE t = "generate-actions" -> "TGActionsEndpoint"
      [] t = "generate-conversation" -> "TGConversationEndpoint"
      [] OTHER -> "CustomEndpoint"

\* ------------------------------------------------------------ __init__.py
\* IncomingMessageRouter.handle_message, lines 143-155: the error raised
\* before any endpoint is reached, if there is one.
RoutingErrorUnnamed(msg) ==
    CASE msg.json = "invalid" -> DecodeError
      [] msg.json = "nonobject" ->
            ProcessingError(<<"object has no attribute 'get'">>)
      [] msg.type = NoneValue ->
            ProcessingError(<<"Message is missing a type.">>)
      [] msg.type \notin DOMAIN routes ->
            ProcessingError(<<"Unknown message type">>)
      [] ~msg.shape_ok -> ValidationError
      [] OTHER -> <<>>

RoutingError(msg) ==
    CASE msg.json = "invalid" -> DecodeError
      [] msg.json = "nonobject" ->
            ProcessingError(<<"object has no attribute 'get'">>)
      [] msg.type = NoneValue ->
            ProcessingError(<<"Message is missing a type.">>)
      [] msg.type \notin DOMAIN routes ->
            ProcessingError(<<"Unknown message type: ", msg.type>>)
      [] ~msg.shape_ok -> ValidationError
      [] OTHER -> <<>>

\* handle_message, lines 156-188, for the endpoints that answer at once:
\* the envelope returned to the transport (NoneValue when nothing is sent).
\* `custom` is what the code outside the bridge does when the frame reaches
\* it (a hook, an agent or an endpoint of its own): "none", "raise", or
\* one of the other AgentOutcomes.
HandleMessage(msg, custom) ==
    IF RoutingError(msg) # <<>>
    THEN [reply |-> ErrorEnvelope(RoutingError(msg)), invoked |-> <<>>,
          resolved |-> NoRef]
    ELSE IF routes[msg.type] = "OnSimulationEventEndpoint"
    THEN LET h == EventHandle(msg)
         IN [reply |-> IF h.raised
                       THEN ErrorEnvelope(ProcessingError(h.error))
                       ELSE h.result,
             invoked |-> h.invoked, resolved |-> h.resolved]
    ELSE IF routes[msg.type] = "OnSimulationTickEndpoint"
    THEN LET h == TickHandle(msg, custom)
         IN [reply |-> IF h.raised
                       THEN ErrorEnvelope(ProcessingError(h.error))
                       ELSE NoReply,
             invoked |-> h.invoked, resolved |-> NoRef]
    ELSE IF routes[msg.type] = "OnSimulationErrorEndpoint"
    THEN LET h == ErrorHandle(msg, custom)
         IN [reply |-> IF h.raised
                       THEN ErrorEnvelope(ProcessingError(h.error))
                       ELSE NoReply,
             invoked |-> h.invoked, resolved |-> NoRef]
    ELSE IF routes[msg.type] \in AgentEndpoints
    THEN [reply |-> AgentHandle(msg, custom), invoked |-> <<>>,
          resolved |-> NoRef]
    ELSE \* an endpoint registered by external code
         [reply |-> IF custom = "raise"
                    THEN ErrorEnvelope(ProcessingError(<<"endpoint failed">>))
                    ELSE NoReply,
          invoked |-> <<>>, resolved |-> NoRef]

\* RuntimeBridge.on_incoming_messages: a frame on the "messages" channel is
\* handed to the router and its answer returned to the transport.
Inbound(msg, custom) ==
    /\ sid # NoSid
    /\ transport = "up"
    /\ LET h == HandleMessage(msg, custom)
       IN /\ frame' = [msg |-> msg, reply |-> h.reply, invoked |-> h.invoked,
                       resolved |-> h.resolved,
                       seen |-> IF frame.msg.type = "simulation-event"
                                THEN frame.seen \cup {frame.msg.reference}
                                ELSE frame.seen,
                       paused |-> Paused,
                       routed |-> msg.type \in DOMAIN routes,
                       endpoint |-> IF msg.type \in DOMAIN routes
                                    THEN routes[msg.type]
                                    ELSE NoneValue,
                       custom |-> custom]
          /\ IF h.resolved # NoRef
             THEN /\ event_futures' =
                        [event_futures EXCEPT !.refs = @ \ {h.resolved}]
                  /\ calls' = [calls EXCEPT ![h.resolved].ufut = "resolved"]
             ELSE UNCHANGED <<event_futures, calls>>
    /\ UNCHANGED <<sid, locked, waiters, lockFault, callbacks, wire, pc, cur,
                   outcome, callerCalls, configVars, routes, readyVars>>

\* External code registers a route (IncomingMessageRouter.add_route).
AddRoute(t, e) ==
    /\ serving \in {"init", "serving"}
    /\ routes' = AddedRoute(routes, t, e)
    /\ lastRoute' = [type |-> t, endpoint |-> e]
    /\ UNCHANGED <<sid, locked, waiters, lockFault, calls, callbacks, wire,
                   pc, cur, outcome, callerCalls, hooks, persona_configs,
                   start_date, transport, serving, process, config,
                   children, processCall, event_futures, frame, readyVars>>

\* RuntimeBridge.run, lines 618-641: `if <type> not in self.router.routes`
\* then add_route(Route(<type>, <default endpoint>)), once per agent type.
DefaultForAlways(rs, t) == AddedRoute(rs, t, EndpointFor(t))
DefaultFor(rs, t) ==
    IF t \in DOMAIN rs THEN rs ELSE AddedRoute(rs, t, EndpointFor(t))

WithDefaults(rs) ==
    DefaultFor(DefaultFor(rs, "generate-actions"), "generate-conversation")

\* The last add_route call made by run, if it made one.
LastDefault(rs) ==
    IF "generate-conversation" \notin DOMAIN rs
    THEN [type |-> "generate-conversation",
          endpoint |-> EndpointFor("generate-conversation")]
    ELSE IF "generate-actions" \notin DOMAIN rs
    THEN [type |-> "generate-actions",
          endpoint |-> EndpointFor("generate-actions")]
    ELSE lastRoute

\* Runtime.terminate (runtime.py 41-48): a running process is terminated
\* and waited for; otherwise only a warning is logged.
Terminated(proc) == IF proc = "running" THEN "terminated" ELSE proc

\* The children that Terminated(proc) ends: the one behind a live handle.
Ended(proc) == IF proc = "running" THEN 1 ELSE 0

\* Runtime.start (runtime.py 31-38): nothing while the process behind the
\* handle is alive (poll() is None); ValueError without a path; otherwise
\* Popen puts a new child behind the handle.
StartOutcomeAlwaysSpawns(proc, hasPath) ==
    IF ~hasPath
    THEN [process |-> proc, spawned |-> 0, raised |-> TRUE]
    ELSE [process |-> "running", spawned |-> 1, raised |-> FALSE]
StartOutcome(proc, hasPath) ==
    IF proc = "running"
    THEN [process |-> proc, spawned |-> 0, raised |-> FALSE]
    ELSE IF ~hasPath
    THEN [process |-> proc, spawned |-> 0, raised |-> TRUE]
    ELSE [process |-> "running", spawned |-> 1, raised |-> FALSE]

\* What the caller of RuntimeBridge.run does with an exception that leaves
\* it: run_demos.py 100-106 (and stories/christmas_carol/run.py 319-325)
\* terminate the runtime and re-raise; bridge.main (bridge.py 652-717), the
\* package entry point, has no handler.
Escaped(proc) ==
    IF config.entry = "run_demos" THEN Terminated(proc) ELSE proc
EscapedEnded(proc) ==
    IF config.entry = "run_demos" THEN Ended(proc) ELSE 0

\* RuntimeBridge.run up to web.run_app (lines 598-645): starts the runtime
\* process when a path is configured, installs the default agent routes,
\* and begins serving. dynamic_model_loader raises when the model's package
\* is not installed (`loads` false).
Run(loads) ==
    /\ serving = "init"
    /\ children < MaxChildren
    /\ LET o == IF config.runtime_path
                THEN StartOutcome(process, TRUE)
                ELSE [process |-> process, spawned |-> 0, raised |-> FALSE]
           started == o.process
           alive == children + o.spawned
       IN IF AgentTypes \ DOMAIN routes # {} /\ ~loads
          THEN /\ serving' = "raised"
               /\ process' = Escaped(started)
               /\ children' = alive - EscapedEnded(started)
               /\ UNCHANGED <<routes, lastRoute>>
          ELSE /\ serving' = "serving"
               /\ process' = started
               /\ children' = alive
               /\ routes' = WithDefaults(routes)
               /\ lastRoute' = LastDefault(routes)
    /\ UNCHANGED processCall
    /\ UNCHANGED <<sid, locked, waiters, lockFault, calls, callbacks, wire,
                   pc, cur, outcome, callerCalls, hooks, persona_configs,
                   start_date, transport, config, event_futures, frame,
                   readyVars>>

\* Runtime.start called directly, or by `with runtime:` (__enter__,
\* runtime.py 50-51).
Start ==
    /\ children < MaxChildren
    /\ LET o == StartOutcome(process, config.runtime_path)
       IN /\ process' = o.process
          /\ children' = children + o.spawned
          /\ processCall' = [op |-> "start", spawned |-> o.spawned,
                             raised |-> o.raised]
    /\ UNCHANGED <<sid, locked, waiters, lockFault, calls, callbacks, wire,
                   pc, cur, outcome, callerCalls, hooks, persona_configs,
                   start_date, transport, serving, config, lastRoute,
                   frameVars, readyVars>>

\* Runtime.terminate called directly, or by `with runtime:` (__exit__,
\* runtime.py 53-54): no statement of it raises.
Terminate ==
    /\ process' = Terminated(process)
    /\ children' = children - Ended(process)
    /\ processCall' = [op |-> "terminate", spawned |-> 0, raised |-> FALSE]
    /\ UNCHANGED <<sid, locked, waiters, lockFault, calls, callbacks, wire,
                   pc, cur, outcome, callerCalls, hooks, persona_configs,
                   start_date, transport, serving, config, lastRoute,
                   frameVars, readyVars>>

\* The child behind the handle exits on its own: poll() stops returning
\* None.
ChildExit ==
    /\ process = "running"
    /\ process' = "exited"
    /\ children' = children - Ended(process)
    /\ UNCHANGED <<sid, locked, waiters, lockFault, calls, callbacks, wire,
                   pc, cur, outcome, callerCalls, hooks, persona_configs,
                   start_date, transport, serving, config, lastRoute,
                   processCall, frameVars, readyVars>>

\* The socket of a connected runtime is closed when serving ends.
Closed == IF transport = "up" THEN "down" ELSE transport

\* web.run_app returns (line 645: the server was stopped) and run goes on
\* to lines 646-649: `if self.runtime: self.runtime.terminate()`.
Stop ==
    /\ serving = "serving"
    /\ serving' = "stopped"
    /\ process' = Terminated(process)
    /\ children' = children - Ended(process)
    /\ UNCHANGED processCall
    /\ transport' = Closed
    /\ UNCHANGED <<sid, locked, waiters, lockFault, calls, callbacks, wire,
                   pc, cur, outcome, callerCalls, hooks, persona_configs,
                   start_date, config, lastRoute, frameVars, readyVars>>

\* An exception leaves web.run_app (line 645): run has no try/finally, so
\* lines 646-649 are skipped and the exception reaches run's caller.
Crash ==
    /\ serving = "serving"
    /\ serving' = "raised"
    /\ process' = Escaped(process)
    /\ children' = children - EscapedEnded(process)
    /\ UNCHANGED processCall
    /\ transport' = Closed
    /\ UNCHANGED <<sid, locked, waiters, lockFault, calls, callbacks, wire,
                   pc, cur, outcome, callerCalls, hooks, persona_configs,
                   start_date, config, lastRoute, frameVars, readyVars>>

\* ------------------------------------------------------------ api.py
\* The third positional argument the API wrapper hands to send_message.
\* modal and override_character_action pass their `future` argument there
\* (None when omitted); every other wrapper passes nothing (timeout=5).
SecondsTimeout(n) == [kind |-> "seconds", secs |-> n]
NoneTimeout == [kind |-> "none", secs |-> 0]
FutureTimeout == [kind |-> "future", secs |-> 0]

TimeoutArg(cmd, future) ==
    IF cmd \in FutureCmds
    THEN IF future THEN FutureTimeout ELSE NoneTimeout
    ELSE SecondsTimeout(DefaultTimeout)

\* ------------------------------------------------------------ runtime.py
\* asyncio.Lock.acquire() returns at once only when the lock is free and
\* nobody is queued; otherwise the coroutine joins the FIFO of waiters.
AcquireNowUnguarded == TRUE
AcquireNow == ~locked /\ waiters = <<>>

\* The waiter that emit_lock.release() wakes up.
NextWaiter == Head(waiters)

\* What `await asyncio.wait_for(future, timeout)` does when it is reached
\* with the future still pending: wait with a deadline, wait without one,
\* or raise TypeError because the timeout is not a number.
WaitMode(tmo) ==
    CASE tmo.kind = "seconds" -> "deadline"
      [] tmo.kind = "none" -> "forever"
      [] OTHER -> "type_error"

\* The reply the runtime gives to the emit carrying reference `of`.
NoResp == [of |-> NoRef, kind |-> "none"]
Reply(r, kind) == [of |-> r, kind |-> kind]

\* Lines 135-158: the outcome of a call whose future got (type, data_str).
ParseOutcomeLenient(resp) == "ok"
ParseOutcome(resp) ==
    CASE resp.kind = "badjson" -> "json_error"     \* json.loads raises
      [] resp.kind = "error" -> "runtime_error"    \* data.get("error") is set
      [] OTHER -> "ok"

\* Lines 82-91: the future that the callback handed to the emit of call r
\* resolves: the one created by that same call (a closure variable).
CallbackFutureShared(r) == Len(calls)
CallbackFuture(r) == r

\* A call that returned its response (it raised nothing).
CallOkSwallowed(p) == TRUE
CallOk(p) == outcome[p] = "ok"

\* Where a coroutine continues once its send_message call has ended.
After(p) ==
    IF p = Ready THEN "ret" ELSE IF p \in TickTasks THEN "hook" ELSE "idle"

\* The simulation-ready frame on whose behalf coroutine p makes a call.
CurFrame(p) ==
    IF p # Ready THEN 0
    ELSE IF rstage \in {"none", "done", "failed"}
         THEN readyCount + 1 ELSE readyCount

\* random_reference() (__init__.py 24-26): uuid4().hex, a value that no
\* earlier call has drawn.
random_reference_repeated == IF calls = <<>> THEN 1 ELSE calls[1].ref
random_reference == Len(calls) + 1

\* Lines 156-158: the response handed back carries the local `reference`
\* of the call that built it.
ResponseReference(call) == call.ref

\* Line 93: `if self.sid is None`.
SidMissingIgnored == FALSE
SidMissing == sid = NoSid

\* Lines 81-105 of send_message, run by coroutine p without suspension:
\* the sid check, the reference, the request and emit_lock.acquire().
SendStart(p, cmd, by, tmo, supplied) ==
    /\ IF SidMissing
       THEN /\ pc' = [pc EXCEPT ![p] = After(p)]
            /\ outcome' = [outcome EXCEPT ![p] = "sid_error"]
            /\ cur' = [cur EXCEPT ![p] = NoRef]
            /\ UNCHANGED <<calls, locked, waiters>>
       ELSE /\ Len(calls) < MaxCalls
            /\ calls' = Append(calls, [proc |-> p, cmd |-> cmd, by |-> by,
                                       timeout |-> tmo,
                                       ufut |-> IF supplied THEN "pending"
                                                ELSE "none",
                                       frame |-> CurFrame(p),
                                       conn |-> transport,
                                       ref |-> random_reference,
                                       ret |-> NoRef,
                                       fut |-> "pending", resp |-> NoResp])
            /\ cur' = [cur EXCEPT ![p] = Len(calls) + 1]
            /\ outcome' = [outcome EXCEPT ![p] = "none"]
            /\ IF AcquireNow
               THEN /\ locked' = TRUE
                    /\ pc' = [pc EXCEPT ![p] = "emit"]
                    /\ UNCHANGED waiters
               ELSE /\ waiters' = Append(waiters, p)
                    /\ pc' = [pc EXCEPT ![p] = "acquire"]
                    /\ UNCHANGED locked

\* emit_lock.acquire() returns in the coroutine that release() woke up.
Acquired(p) ==
    /\ pc[p] = "acquire"
    /\ ~locked
    /\ waiters # <<>>
    /\ p = NextWaiter
    /\ locked' = TRUE
    /\ waiters' = Tail(waiters)
    /\ pc' = [pc EXCEPT ![p] = "emit"]
    /\ UNCHANGED <<sid, lockFault, calls, callbacks, wire, cur, outcome,
                   callerCalls, configVars, frameVars,
                   readyVars>>

\* Lines 107-123: sio.emit puts the command on the transport and registers
\* the callback; then wait_for starts (or raises TypeError at once).
Emit(p) ==
    /\ pc[p] = "emit"
    /\ wire' = Append(wire, cur[p])
    /\ callbacks' = callbacks \cup {cur[p]}
    /\ IF WaitMode(calls[cur[p]].timeout) = "type_error"
       THEN /\ pc' = [pc EXCEPT ![p] = After(p)]
            /\ outcome' = [outcome EXCEPT ![p] = "type_error"]
       ELSE /\ pc' = [pc EXCEPT ![p] = "wait"]
            /\ UNCHANGED outcome
    /\ UNCHANGED <<sid, locked, waiters, lockFault, calls, cur, callerCalls,
                   configVars, frameVars,
                   readyVars>>

\* Lines 113-118: sio.emit raises; the lock is released and the error re-raised.
LockAfterEmitErrorKept(held) == held
LockAfterEmitError(held) == FALSE

EmitFail(p) ==
    /\ pc[p] = "emit"
    /\ locked' = LockAfterEmitError(locked)
    /\ pc' = [pc EXCEPT ![p] = After(p)]
    /\ outcome' = [outcome EXCEPT ![p] = "emit_error"]
    /\ UNCHANGED <<sid, waiters, lockFault, calls, callbacks, wire, cur,
                   callerCalls, configVars, frameVars,
                   readyVars>>

\* Lines 85-91: the transport invokes the callback of the emit carrying
\* reference r, once, with the runtime's reply.
\* Line 88: `if future.done()`: the future has a result or was cancelled
\* by the timeout of wait_for.
FutureDoneIgnored(call) == FALSE
FutureDone(call) == call.fut # "pending"

\* Line 86: self.emit_lock.release() on a held lock.
LockAfterCallbackKept(held) == held
LockAfterCallback(held) == FALSE

\* Lines 85-91, the callback of call r invoked with reply `resp`.
Callback(r, resp) ==
    /\ IF locked
       THEN /\ locked' = LockAfterCallback(locked)
            /\ UNCHANGED lockFault
            /\ IF ~FutureDone(calls[CallbackFuture(r)])
               THEN calls' = [calls EXCEPT
                                 ![CallbackFuture(r)].fut = "result",
                                 ![CallbackFuture(r)].resp = Reply(r, resp)]
               ELSE UNCHANGED calls
       ELSE \* release() raises RuntimeError and the callback stops there
            /\ lockFault' = TRUE
            /\ UNCHANGED <<locked, calls>>
    /\ UNCHANGED <<sid, waiters, wire, pc, cur, outcome, callerCalls,
                   configVars, frameVars,
                   readyVars>>

\* The transport receives the acknowledgement of command r, forgets the
\* callback and invokes it.
Ack(r, resp) ==
    /\ transport = "up"
    /\ r \in callbacks
    /\ callbacks' = callbacks \ {r}
    /\ Callback(r, resp)

\* A transport that delivers the acknowledgement of command r a second
\* time invokes the callback again: the callback has no test of its own.
AckAgain(r, resp) ==
    /\ transport = "up"
    /\ r \in Emitted
    /\ r \notin callbacks
    /\ UNCHANGED callbacks
    /\ Callback(r, resp)

\* Lines 124-128: wait_for gives up after `timeout` seconds, cancels the
\* future and TimeoutError is re-raised. The lock is not touched.
LockAfterTimeoutReleased(held) == FALSE
LockAfterTimeout(held) == held

Timeout(p) ==
    /\ pc[p] = "wait"
    /\ calls[cur[p]].fut = "pending"
    /\ WaitMode(calls[cur[p]].timeout) = "deadline"
    /\ calls' = [calls EXCEPT ![cur[p]].fut = "cancelled"]
    /\ pc' = [pc EXCEPT ![p] = After(p)]
    /\ outcome' = [outcome EXCEPT ![p] = "timeout"]
    /\ locked' = LockAfterTimeout(locked)
    /\ UNCHANGED <<sid, waiters, lockFault, callbacks, wire, cur,
                   callerCalls, configVars, frameVars,
                   readyVars>>

\* API.set_start_date (api.py 93-101): once send_message has returned its
\* response, the date is recorded; nothing suspends in between.
StartDateAfterAnyReply(call) ==
    IF call.cmd = "set-start-date" THEN "caller" ELSE start_date
StartDateAfter(call) ==
    IF call.cmd = "set-start-date" /\ ParseOutcome(call.resp) = "ok"
    THEN "caller" ELSE start_date

\* Lines 123, 135-158: the future has its result; the reply is parsed and
\* the response returned, or an error raised.
Return(p) ==
    /\ pc[p] = "wait"
    /\ calls[cur[p]].fut = "result"
    /\ pc' = [pc EXCEPT ![p] = After(p)]
    /\ outcome' = [outcome EXCEPT ![p] = ParseOutcome(calls[cur[p]].resp)]
    /\ calls' = IF ParseOutcome(calls[cur[p]].resp) = "ok"
                THEN [calls EXCEPT
                         ![cur[p]].ret = ResponseReference(calls[cur[p]])]
                ELSE calls
    /\ start_date' = StartDateAfter(calls[cur[p]])
    /\ UNCHANGED <<sid, locked, waiters, lockFault, callbacks, wire,
                   cur, callerCalls, hooks, persona_configs, transport,
                   frameVars, readyVars, serveVars>>

\* Runtime.on_connect: the runtime process connects over the transport.
Connect ==
    /\ serving = "serving"
    /\ sid = NoSid
    /\ sid' = "sid1"
    /\ transport' = "up"
    /\ UNCHANGED <<locked, waiters, lockFault, calls, callbacks, wire, pc,
                   cur, outcome, callerCalls, hooks, persona_configs,
                   start_date, frameVars, readyVars, serveVars>>

\* The socket closes and RuntimeBridge.disconnect (bridge.py 533-536) calls
\* Runtime.on_disconnect, whose body is `pass`: sid keeps its value.
Disconnect ==
    /\ transport = "up"
    /\ transport' = "down"
    /\ UNCHANGED <<sid, locked, waiters, lockFault, calls, callbacks, wire,
                   pc, cur, outcome, callerCalls, hooks, persona_configs,
                   start_date, frameVars, readyVars, serveVars>>

\* A caller coroutine calls one of the API wrappers.
ApiCall(p, cmd, future) ==
    /\ p \in Callers
    /\ pc[p] = "idle"
    /\ callerCalls < MaxCallerCalls
    /\ callerCalls' = callerCalls + 1
    /\ SendStart(p, cmd, "caller", TimeoutArg(cmd, future), future)
    /\ UNCHANGED <<sid, lockFault, transportVars, configVars, frameVars,
                   readyVars>>

\* A simulation-tick frame arrives (bridge.py 570-572) and its coroutine
\* runs OnSimulationTickEndpoint.handle_request (lines 283-294): the
\* on_tick hook is awaited and runs up to its first API call, where it is
\* suspended in send_message. Neither on_incoming_messages nor the endpoint
\* tests whether an earlier on_tick is still running.
TickStart(t, cmd) ==
    /\ t \in TickTasks
    /\ sid # NoSid
    /\ transport = "up"
    /\ "on_tick" \in hooks
    /\ pc[t] = "idle"
    /\ Len(calls) < MaxTickCalls
    /\ SendStart(t, cmd, "tick", TimeoutArg(cmd, FALSE), FALSE)
    /\ UNCHANGED <<sid, lockFault, transportVars, callerCalls, configVars,
                   frameVars, readyVars>>

\* The hook's API call has ended; the hook returns (or lets the error out)
\* and the endpoint returns None.
TickEnd(t) ==
    /\ t \in TickTasks
    /\ pc[t] = "hook"
    /\ pc' = [pc EXCEPT ![t] = "idle"]
    /\ UNCHANGED <<sid, locked, waiters, lockFault, calls, callbacks, wire,
                   cur, outcome, callerCalls, configVars, frameVars,
                   readyVars>>

\* API.enable_agent (api.py 103-141). `actions` and `conversations` say
\* whether the argument was given (is not None).
\* Line 120: `if actions is None and conversations is None`.
NoFlagAccepted(actions, conversations) == FALSE
NoFlag(actions, conversations) == ~actions /\ ~conversations

\* Lines 126-136: the command with the keys that are put into its data.
EnableAgentData(actions, conversations) ==
    CASE actions /\ conversations -> "enable-agent+actions+conversations"
      [] actions -> "enable-agent+actions"
      [] conversations -> "enable-agent+conversations"
      [] OTHER -> "enable-agent"

\* With neither argument the error is logged and the coroutine returns
\* (lines 120-124); otherwise the command goes through send_message.
EnableAgent(p, actions, conversations) ==
    /\ p \in Callers
    /\ pc[p] = "idle"
    /\ callerCalls < MaxCallerCalls
    /\ callerCalls' = callerCalls + 1
    /\ IF NoFlag(actions, conversations)
       THEN /\ outcome' = [outcome EXCEPT ![p] = "error_logged"]
            /\ cur' = [cur EXCEPT ![p] = NoRef]
            /\ UNCHANGED <<calls, locked, waiters, pc>>
       ELSE SendStart(p, EnableAgentData(actions, conversations), "caller",
                      SecondsTimeout(DefaultTimeout), FALSE)
    /\ UNCHANGED <<sid, lockFault, transportVars, configVars, frameVars,
                   readyVars>>

\* ------------------------------------------------------------ bridge.py
\* Runtime.required_version and the version test of lines 180-187.
RequiredVersion == <<"1.47.0-beta">>
StartsWith(v, prefix) ==
    /\ Len(v) >= Len(prefix)
    /\ SubSeq(v, 1, Len(prefix)) = prefix
VersionOkAny(v) == TRUE
VersionOk(v) == v = <<"local.build">> \/ StartsWith(v, RequiredVersion)

Versions == {<<"local.build">>, <<"1.47.0-beta">>, <<"1.47.0-beta", ".2">>,
             <<"1.46.0">>, <<>>}

\* The handler raises: handle_message answers with an error envelope.
ReadyFails(msg) ==
    /\ rstage' = "failed"
    /\ readyResp' = ErrorEnvelope(ProcessingError(msg))

\* Line 273, `if resume:`, on what the hook returned; line 271, the default.
ShouldResumeAlways(result) == TRUE
ShouldResume(result) == result
DefaultResume == TRUE

\* Lines 264-275: call on_ready if it is set, else resume.
HookOrResume ==
    IF "on_ready" \in hooks
    THEN /\ rstage' = "hook"
         /\ pc' = [pc EXCEPT ![Ready] = "idle"]
         /\ UNCHANGED <<calls, locked, waiters, cur, outcome, readyResp>>
    ELSE IF ShouldResume(DefaultResume)
    THEN /\ rstage' = "resume"
         /\ SendStart(Ready, "resume", "handler",
                      SecondsTimeout(DefaultTimeout), FALSE)
         /\ UNCHANGED readyResp
    ELSE /\ rstage' = "done"
         /\ readyResp' = NoReply
         /\ pc' = [pc EXCEPT ![Ready] = "idle"]
         /\ UNCHANGED <<calls, locked, waiters, cur, outcome>>

\* Lines 209-262: the next persona configuration, if any is left.
\* A persona with a summary, description or backstory calls
\* api.update_character_property, which API does not define; one with
\* actions or conversations enabled calls api.enable_agent.
PersonaOrHook ==
    IF personaLeft = <<>>
    THEN HookOrResume /\ UNCHANGED personaLeft
    ELSE /\ personaLeft' = Tail(personaLeft)
         /\ IF Head(personaLeft) = "props"
            THEN /\ ReadyFails(<<"'API' object has no attribute ",
                                 "update_character_property">>)
                 /\ pc' = [pc EXCEPT ![Ready] = "idle"]
                 /\ UNCHANGED <<calls, locked, waiters, cur, outcome>>
            ELSE /\ rstage' = "persona"
                 /\ SendStart(Ready, "enable-agent", "handler",
                              SecondsTimeout(DefaultTimeout), FALSE)
                 /\ UNCHANGED readyResp

\* Lines 172-190: a simulation-ready frame arrives; its start date is
\* recorded, the version is checked and api.pause() is called.
ReadyFrame(v) ==
    /\ sid # NoSid
    /\ transport = "up"
    /\ start_date' = "ready"
    /\ rstage \in {"none", "done", "failed"}
    /\ pc[Ready] = "idle"
    /\ readyCount < MaxReady
    /\ readyCount' = readyCount + 1
    /\ runtime_version' = v
    /\ hookCalls' = 0
    /\ hookResult' = "none"
    /\ personaLeft' = persona_configs
    /\ IF VersionOk(v)
       THEN /\ rstage' = "pause"
            /\ readyResp' = PendingReply
            /\ SendStart(Ready, "pause", "handler",
                         SecondsTimeout(DefaultTimeout), FALSE)
       ELSE /\ ReadyFails(<<"Incorrect Runtime version detected">>)
            /\ UNCHANGED sendVars
    /\ UNCHANGED <<sid, lockFault, transportVars, callerCalls, hooks,
                   persona_configs, transport, frameVars, serveVars>>

\* Line 190: `await self.bridge.runtime.api.pause()` lets the exception of
\* send_message out of the handler.
PauseOkAssumed == TRUE
PauseOk == CallOk(Ready)

\* Lines 190-192: api.pause() has ended; api.get_world_context() is called.
ReadyAfterPause ==
    /\ rstage = "pause"
    /\ pc[Ready] = "ret"
    /\ IF PauseOk
       THEN /\ rstage' = "ctx"
            /\ SendStart(Ready, "request-world-context", "handler",
                         SecondsTimeout(DefaultTimeout), FALSE)
            /\ UNCHANGED readyResp
       ELSE /\ ReadyFails(<<outcome[Ready]>>)
            /\ pc' = [pc EXCEPT ![Ready] = "idle"]
            /\ UNCHANGED <<calls, locked, waiters, cur, outcome>>
    /\ UNCHANGED <<sid, lockFault, transportVars, callerCalls, configVars,
                   frameVars,
                   readyCount, runtime_version, personaLeft, hookCalls, hookResult>>

\* Lines 192-262: the world context is in; personas are configured.
ReadyAfterContext ==
    /\ rstage \in {"ctx", "persona"}
    /\ pc[Ready] = "ret"
    /\ IF CallOk(Ready)
       THEN PersonaOrHook
       ELSE /\ ReadyFails(<<outcome[Ready]>>)
            /\ pc' = [pc EXCEPT ![Ready] = "idle"]
            /\ UNCHANGED <<calls, locked, waiters, cur, outcome, personaLeft>>
    /\ UNCHANGED <<sid, lockFault, transportVars, callerCalls, configVars,
                   frameVars,
                   readyCount, runtime_version, hookCalls, hookResult>>

\* The on_ready hook (external code) calls an API wrapper.
HookCall(cmd, future) ==
    /\ rstage = "hook"
    /\ pc[Ready] = "idle"
    /\ hookCalls < MaxHookCalls
    /\ hookCalls' = hookCalls + 1
    /\ SendStart(Ready, cmd, "hook", TimeoutArg(cmd, future), future)
    /\ UNCHANGED <<sid, lockFault, transportVars, callerCalls, configVars,
                   frameVars,
                   rstage, readyCount, runtime_version, personaLeft, hookResult, readyResp>>

\* The hook's API call has ended: the hook goes on, or lets the error out.
HookAfterCall(caught) ==
    /\ rstage = "hook"
    /\ pc[Ready] = "ret"
    /\ pc' = [pc EXCEPT ![Ready] = "idle"]
    /\ IF CallOk(Ready) \/ caught
       THEN UNCHANGED <<rstage, readyResp>>
       ELSE ReadyFails(<<outcome[Ready]>>)
    /\ UNCHANGED <<sid, lockFault, transportVars, callerCalls, configVars,
                   frameVars,
                   calls, locked, waiters, cur, outcome, readyCount, runtime_version,
                   personaLeft, hookCalls, hookResult>>

\* Lines 268-275: the hook returns its boolean; resume if it is true.
HookReturn(resume) ==
    /\ rstage = "hook"
    /\ pc[Ready] = "idle"
    /\ hookResult' = IF resume THEN "true" ELSE "false"
    /\ IF ShouldResume(resume)
       THEN /\ rstage' = "resume"
            /\ SendStart(Ready, "resume", "handler",
                         SecondsTimeout(DefaultTimeout), FALSE)
            /\ UNCHANGED readyResp
       ELSE /\ rstage' = "done"
            /\ readyResp' = NoReply
            /\ UNCHANGED sendVars
    /\ UNCHANGED <<sid, lockFault, transportVars, callerCalls, configVars,
                   frameVars,
                   readyCount, runtime_version, personaLeft, hookCalls>>

\* Line 275: api.resume() has ended; the handler returns None or raises.
ReadyAfterResume ==
    /\ rstage = "resume"
    /\ pc[Ready] = "ret"
    /\ pc' = [pc EXCEPT ![Ready] = "idle"]
    /\ IF CallOk(Ready)
       THEN /\ rstage' = "done"
            /\ readyResp' = NoReply
       ELSE ReadyFails(<<outcome[Ready]>>)
    /\ UNCHANGED <<sid, lockFault, transportVars, callerCalls, configVars,
                   frameVars,
                   calls, locked, waiters, cur, outcome, readyCount, runtime_version,
                   personaLeft, hookCalls, hookResult>>

RespKinds == {"ok", "error", "badjson"}
CallerCmds == {"pause", "modal", "override-character-action"}
HookCmds == {"resume", "modal"}
PersonaKinds == {"props", "agent"}
PersonaConfigs ==
    UNION {[1..n -> PersonaKinds] : n \in 0..MaxPersonaCalls}

\* The state after RuntimeBridge.__init__, with the hooks that external
\* code registers and the persona configurations it passes.
InitFrom(hookSets, personas, servings, configs) ==
    /\ sid = NoSid
    /\ locked = FALSE
    /\ waiters = <<>>
    /\ lockFault = FALSE
    /\ calls = <<>>
    /\ callbacks = {}
    /\ wire = <<>>
    /\ pc = [p \in Procs |-> "idle"]
    /\ cur = [p \in Procs |-> NoRef]
    /\ outcome = [p \in Procs |-> "none"]
    /\ callerCalls = 0
    /\ hooks \in hookSets
    /\ persona_configs \in personas
    /\ routes = InitialRoutes
    /\ event_futures = NoAttribute
    /\ frame = NoFrame
    /\ rstage = "none"
    /\ readyCount = 0
    /\ runtime_version = <<>>
    /\ personaLeft = <<>>
    /\ hookCalls = 0
    /\ hookResult = "none"
    /\ readyResp = NoReply
    /\ start_date = "unset"
    /\ transport = "none"
    /\ serving \in servings
    /\ config \in configs
    /\ process = "none"
    /\ lastRoute = NoRoute
    /\ children = 0
    /\ processCall = NoProcessCall

\* The bridge is serving, started from the package entry point without a
\* runtime path.
InitWith(hookSets, personas) ==
    InitFrom(hookSets, personas, {"serving"}, {DefaultConfig})

\* No hook registered, no persona configured.
Init == InitWith({DefaultHooks}, {<<>>})

CoroutineStep ==
    \/ \E p \in Procs : Acquired(p)
    \/ \E p \in Procs : Emit(p)
    \/ \E p \in Procs : EmitFail(p)
    \/ \E r \in callbacks, resp \in RespKinds : Ack(r, resp)
    \/ \E p \in Procs : Timeout(p)
    \/ \E p \in Procs : Return(p)

CallerStep ==
    \E p \in Callers, cmd \in CallerCmds, future \in BOOLEAN :
        /\ (future => cmd \in FutureCmds)
        /\ ApiCall(p, cmd, future)

\* One script that issues the deferred-completion commands one after the
\* other, with or without a future.
Script == 1
ScriptStep ==
    \E cmd \in CallerCmds, future \in BOOLEAN :
        /\ (future => cmd \in FutureCmds)
        /\ ApiCall(Script, cmd, future)

ReadyStep ==
    \/ \E v \in Versions : ReadyFrame(v)
    \/ ReadyAfterPause
    \/ ReadyAfterContext
    \/ \E cmd \in HookCmds, future \in BOOLEAN :
          /\ (future => cmd \in FutureCmds)
          /\ HookCall(cmd, future)
    \/ \E caught \in BOOLEAN : HookAfterCall(caught)
    \/ \E resume \in BOOLEAN : HookReturn(resume)
    \/ ReadyAfterResume

\* Inbound messages: what the runtime, or anything else on the connection,
\* may send on the "messages" channel.
EventNames == {"on-action-complete", "on-modal-response"}
MsgTypes == {"simulation-event", "custom-event", "simulation-pause", ""}
AddableTypes == {"custom-event", "generate-actions", "generate-conversation"}


EventMsgs ==
    {[json |-> "object", type |-> "simulation-event", reference |-> r,
      event_name |-> n, has_data |-> d, shape_ok |-> TRUE] :
        r \in {NoRef} \cup Emitted, n \in EventNames, d \in BOOLEAN}

OtherMsgs ==
    {[json |-> j, type |-> t, reference |-> NoRef, event_name |-> "",
      has_data |-> FALSE, shape_ok |-> ok] :
        j \in {"object"}, t \in (MsgTypes \ {"simulation-event"}) \cup {NoneValue},
        ok \in BOOLEAN}
    \cup
    {[json |-> j, type |-> NoneValue, reference |-> NoRef, event_name |-> "",
      has_data |-> FALSE, shape_ok |-> FALSE] : j \in {"invalid", "nonobject"}}

\* simulation-tick and simulation-error frames; has_data: the frame carries
\* its current_time (tick) or its error text (error).
LifecycleMsgs ==
    {[json |-> "object", type |-> t, reference |-> NoRef, event_name |-> "",
      has_data |-> d, shape_ok |-> TRUE] :
        t \in {"simulation-tick", "simulation-error"}, d \in BOOLEAN}

\* A reference made up by the runtime for a request of its own: it differs
\* from every reference a send_message call can have.
RuntimeRef == MaxCalls + 1

\* Requests of the runtime to the agent endpoints.
AgentMsgs ==
    {[json |-> "object", type |-> t, reference |-> r, event_name |-> "",
      has_data |-> TRUE, shape_ok |-> ok] :
        t \in {"generate-actions", "generate-conversation"},
        r \in {NoRef, RuntimeRef}, ok \in BOOLEAN}

Customs == {"none", "raise"}

\* The entry points and whether a runtime path is configured.
ServeConfigs ==
    [runtime_path : BOOLEAN, entry : {"bridge.main", "run_demos"}]

\* A bridge from construction to the end of serving: routes registered by
\* external code, run, agent requests of the runtime, stop or exception.
ServeStep ==
    \/ \E t \in AddableTypes : AddRoute(t, "CustomEndpoint")
    \/ \E loads \in BOOLEAN : Run(loads)
    \/ \E msg \in AgentMsgs, custom \in AgentOutcomes : Inbound(msg, custom)
    \/ Stop
    \/ Crash

EventStep == \E msg \in EventMsgs : Inbound(msg, "none")

LifecycleStep == \E msg \in LifecycleMsgs, custom \in Customs : Inbound(msg, custom)

RouterStep ==
    \/ \E msg \in OtherMsgs \cup EventMsgs \cup LifecycleMsgs,
            custom \in Customs :
          Inbound(msg, custom)
    \/ \E msg \in AgentMsgs, custom \in AgentOutcomes : Inbound(msg, custom)
    \/ \E t \in AddableTypes : AddRoute(t, EndpointFor(t))

\* One script that pauses, resumes and sets the start date.
LifecycleCmds == {"pause", "resume", "set-start-date"}
LifecycleCallStep == \E cmd \in LifecycleCmds : ApiCall(Script, cmd, FALSE)

\* One script that enables agents, with every combination of the flags.
EnableAgentStep ==
    \E actions, conversations \in BOOLEAN :
        EnableAgent(Script, actions, conversations)

\* Caller coroutines using the command surface of a connected runtime.
Next == Connect \/ CallerStep \/ CoroutineStep

Spec == Init /\ [][Next]_vars

\* The simulation-ready handler and its on_ready hook.
NextReady == Connect \/ ReadyStep \/ CoroutineStep

\* The simulation-ready handler and its on_ready hook, for every persona
\* configuration handed to RuntimeBridge and with or without an on_ready hook.
InitReady ==
    InitWith({DefaultHooks, DefaultHooks \cup {"on_ready"}}, PersonaConfigs)

SpecReady == InitReady /\ [][NextReady]_vars

\* The on_ready hook of demos/simulation_commands.py hands a future to
\* modal and awaits it; simulation-event frames arrive meanwhile.
HookEventMsgs ==
    {m \in EventMsgs : /\ m.reference # NoRef
                       /\ calls[m.reference].by = "hook"
                       /\ m.has_data}
HookEventStep == \E msg \in HookEventMsgs : Inbound(msg, "none")

InitHook == InitWith({DefaultHooks \cup {"on_ready"}}, {<<>>})
NextHook == Connect \/ ReadyStep \/ CoroutineStep \/ HookEventStep
SpecHook == InitHook /\ [][NextHook]_vars

\* Deferred completions: a script that hands a future to modal or
\* override_character_action, and the simulation-event frames that follow.
InitEvent ==
    InitWith({DefaultHooks,
              DefaultHooks \cup {"on_event", "on_action_complete"}}, {<<>>})

NextEvent == Connect \/ ScriptStep \/ CoroutineStep \/ EventStep

SpecEvent == InitEvent /\ [][NextEvent]_vars

\* The life of a connection: a script driving the simulation clock, tick
\* and error frames from the runtime, and the socket closing.
InitLifecycle == InitWith({DefaultHooks \cup {"on_tick"}}, {<<>>})

NextLifecycle ==
    Connect \/ Disconnect \/ LifecycleCallStep \/ CoroutineStep
        \/ LifecycleStep

SpecLifecycle == InitLifecycle /\ [][NextLifecycle]_vars

\* The router alone: routes added by external code and inbound messages.
NextRouter == Connect \/ RouterStep

InitRouter ==
    InitWith({DefaultHooks, DefaultHooks \cup {"on_tick", "on_event"}}, {<<>>})

SpecRouter == InitRouter /\ [][NextRouter]_vars

\* Callers on a transport that acknowledges every command it was given,
\* with coroutines that are scheduled whenever they can run: a coroutine
\* woken on the lock takes it, one holding the lock finishes its emit, and
\* one whose future has a result returns.
Fairness ==
    /\ \A p \in Procs : WF_vars(Acquired(p))
    /\ \A p \in Procs : WF_vars(Emit(p) \/ EmitFail(p))
    /\ \A p \in Procs : WF_vars(Return(p))
    /\ WF_vars(\E r \in callbacks, resp \in RespKinds : Ack(r, resp))
\* Callers whose commands wait five seconds (pause) or without limit (modal).
LiveCallStep ==
    \E p \in Callers, cmd \in {"pause", "modal"} : ApiCall(p, cmd, FALSE)
NextLive == Connect \/ LiveCallStep \/ CoroutineStep
SpecLive == Init /\ [][NextLive]_vars /\ Fairness

\* Callers on a transport that may deliver an acknowledgement twice.
AckAgainStep == \E r \in Emitted, resp \in RespKinds : AckAgain(r, resp)
NextTransport == Connect \/ CallerStep \/ CoroutineStep \/ AckAgainStep
SpecTransport == Init /\ [][NextTransport]_vars

\* A script enabling agents on a bridge whose runtime connects, answers
\* and disconnects.
NextAgent == Connect \/ Disconnect \/ EnableAgentStep \/ CoroutineStep
SpecAgent == Init /\ [][NextAgent]_vars

\* Simulation-tick frames arriving at a bridge whose on_tick hook sends a
\* command.
TickCmds == {"pause", "resume"}
TickStep ==
    \/ \E t \in TickTasks, cmd \in TickCmds : TickStart(t, cmd)
    \/ \E t \in TickTasks : TickEnd(t)

InitTick == InitWith({DefaultHooks \cup {"on_tick"}}, {<<>>})
NextTick == Connect \/ TickStep \/ CoroutineStep
SpecTick == InitTick /\ [][NextTick]_vars

\* A bridge that is constructed, given routes, run and stopped.
InitServe == InitFrom({DefaultHooks}, {<<>>}, {"init"}, ServeConfigs)
NextServe == Connect \/ ServeStep
SpecServe == InitServe /\ [][NextServe]_vars

\* The process supervisor used by the bridge and by external code.
NextProcess == Connect \/ ServeStep \/ Start \/ Terminate \/ ChildExit
SpecProcess == InitServe /\ [][NextProcess]_vars

\* ------------------------------------------------------------------ properties
\* The coroutines that hold the emit lock without having emitted yet.
Emitting == {p \in Procs : pc[p] = "emit"}

\* C1: Strategy-A calls are mutually exclusive. A command is emitted only
\* by the coroutine that holds the lock; only the command emitted last can
\* still be waiting for its lock release (its acknowledgement callback), so
\* no emit happens before the lock release of the emit before it, and at
\* most one call holds the lock at any instant.
C1_MutualExclusion ==
    /\ \A i \in 1..(Len(wire) - 1) : wire[i] \notin callbacks
    /\ Cardinality(Emitting) + Cardinality(callbacks) <= 1
    /\ (Emitting # {} \/ callbacks # {}) => locked

\* Two callers, the second of which emitted after the first one's release
\* and now holds the lock.
C1_Witness ==
    /\ Len(wire) = 2
    /\ calls[wire[1]].proc # calls[wire[2]].proc
    /\ wire[2] \in callbacks
    /\ locked

\* C2: a call that timed out has released the send-lock: once TimeoutError
\* has been raised to the caller, the lock is not still held for that call.
C2_TimeoutReleasesLock ==
    \A r \in Refs :
        calls[r].fut = "cancelled" => ~(locked /\ r \in callbacks)

C4_EveryWaitHasDeadline ==
    /\ \A p \in Procs :
          pc[p] = "wait" =>
              calls[cur[p]].timeout = SecondsTimeout(DefaultTimeout)
    /\ \A p \in Procs : outcome[p] # "type_error"

\* The calls the ready handler itself made for the current ready frame.
HandlerCalls(cmd) ==
    {r \in Refs : /\ calls[r].by = "handler"
                  /\ calls[r].frame = readyCount
                  /\ calls[r].cmd = cmd}

Acknowledged(r) ==
    /\ r \in Emitted
    /\ r \notin callbacks
    /\ calls[r].fut = "result"
    /\ calls[r].resp = Reply(r, "ok")

\* C5: while the on_ready hook runs, and ever after it has returned, the
\* handler's own pause was emitted and acknowledged; and no resume of the
\* handler exists before the hook has returned.
C5_HookAfterPauseBeforeResume ==
    /\ (rstage = "hook" \/ hookResult # "none") =>
          \E r \in HandlerCalls("pause") : Acknowledged(r)
    /\ "on_ready" \in hooks =>
          (HandlerCalls("resume") # {} => hookResult # "none")
    /\ rstage = "hook" => HandlerCalls("resume") = {}

\* The hook returned true and the handler's resume is on the transport.
C5_Witness ==
    /\ "on_ready" \in hooks
    /\ hookResult = "true"
    /\ HandlerCalls("resume") \cap Emitted # {}

\* C6: the handler calls resume if and only if no on_ready hook is set or
\* the hook returned true; a handler that ended normally has its resume on
\* the transport exactly in that case.
C6_ResumeIffNoHookOrTrue ==
    /\ HandlerCalls("resume") # {} =>
          ("on_ready" \notin hooks \/ hookResult = "true")
    /\ rstage \in {"resume", "done"} =>
          (HandlerCalls("resume") # {}
              <=> ("on_ready" \notin hooks \/ hookResult = "true"))
    /\ rstage = "done" =>
          (HandlerCalls("resume") \cap Emitted # {}
              <=> ("on_ready" \notin hooks \/ hookResult = "true"))
    /\ hookResult = "false" => HandlerCalls("resume") = {}

\* The hook returned false and the handler ended without a resume.
C6_Witness ==
    /\ rstage = "done"
    /\ hookResult = "false"
    /\ HandlerCalls("resume") = {}

\* C7: a future supplied to modal or override_character_action is pending
\* in Runtime.event_futures under the reference of the emitted command,
\* until an event frame resolves it.
C7_SuppliedFutureRegistered ==
    \A r \in Emitted :
        calls[r].ufut = "pending" =>
            (event_futures.defined /\ r \in event_futures.refs)

\* The last frame handled was a simulation-event frame.
EventFrame == frame.msg.type = "simulation-event"

\* C8: a simulation-event frame whose reference is that of a command sent
\* with a future resolves that future, removes its entry and leaves the
\* futures of the other references unresolved.
C8_MatchingFrameResolvesOne ==
    (EventFrame /\ frame.msg.reference \in Emitted
        /\ calls[frame.msg.reference].ufut # "none") =>
        /\ frame.resolved = frame.msg.reference
        /\ calls[frame.msg.reference].ufut = "resolved"
        /\ frame.msg.reference \notin event_futures.refs

\* C9: a second simulation-event frame with a reference already delivered
\* raises nothing and calls no specific hook.
C9_DuplicateIsNoOp ==
    (EventFrame /\ frame.msg.reference # NoRef
        /\ frame.msg.reference \in frame.seen) =>
        /\ frame.reply.type # "error"
        /\ frame.resolved = NoRef
        /\ \A i \in 1..Len(frame.invoked) : frame.invoked[i] = "on_event"

\* The last message handled was a JSON object with a type that has no route.
UnknownType ==
    /\ frame.msg.json = "object"
    /\ frame.msg.type # NoneValue
    /\ frame.msg.type \notin DOMAIN routes

\* C10: an envelope whose type has no route is answered with an envelope
\* of type "error" whose error text is not empty and names the type.
C10_UnknownTypeErrorEnvelope ==
    UnknownType =>
        /\ frame.reply.type = "error"
        /\ frame.reply.error # <<>>
        /\ \E i \in 1..Len(frame.reply.error) :
              frame.reply.error[i] = frame.msg.type
        /\ \E i \in 1..Len(frame.reply.error) :
              frame.reply.error[i] = "Unknown message type: "

C10_Witness ==
    /\ UnknownType
    /\ frame.msg.type = "simulation-pause"
    /\ frame.reply.type = "error"

\* The last frame handled got an error envelope whose text starts with
\* `cause` and says more than that.
ErrorReply(cause) ==
    /\ frame.reply.type = "error"
    /\ frame.reply.reference = NoRef
    /\ frame.reply.error # <<>>
    /\ Head(frame.reply.error) = cause

\* The code outside the bridge was reached by the last frame and raised.
OutsideCodeRaised ==
    /\ frame.custom = "raise"
    /\ frame.routed
    /\ frame.msg.shape_ok
    /\ \/ frame.invoked # <<>>
       \/ routes[frame.msg.type] = "CustomEndpoint"

\* C11: whatever arrives on the messages channel, handle_message returns:
\* text that is not JSON, JSON that is not an object, an object without a
\* type, a payload that does not fit the endpoint's request, and an endpoint
\* or hook that raises all get the error envelope with a text stating the
\* cause, and the next frame can still be handled.
C11_EveryFailureIsAnErrorEnvelope ==
    /\ frame.msg.json = "invalid" => ErrorReply("Error decoding JSON: ")
    /\ frame.msg.json = "nonobject" =>
          ErrorReply("Error processing request: ") /\ Len(frame.reply.error) > 1
    /\ (frame.msg.json = "object" /\ frame.msg.type = NoneValue) =>
          ErrorReply("Error processing request: ") /\ Len(frame.reply.error) > 1
    /\ (frame.routed /\ ~frame.msg.shape_ok) =>
          ErrorReply("Error validating request: ")
    /\ OutsideCodeRaised =>
          ErrorReply("Error processing request: ") /\ Len(frame.reply.error) > 1
    /\ frame.reply.type = "error" =>
          (sid # NoSid /\ transport = "up" /\ ENABLED LifecycleStep)

\* An on_tick hook raised and the frame was answered with the error envelope.
C11_Witness ==
    /\ frame.msg.type = "simulation-tick"
    /\ frame.custom = "raise"
    /\ frame.invoked = <<"on_tick">>
    /\ frame.reply.type = "error"

\* C12: a well-formed request whose type has a route is answered with a
\* response envelope that carries the reference of the request.
C12_ResponseCarriesReference ==
    (frame.routed /\ frame.msg.shape_ok /\ frame.custom = "none"
        /\ (frame.msg.type = "simulation-tick" => frame.msg.has_data)) =>
        /\ frame.reply.type \notin {"error", NoneValue}
        /\ frame.reply.reference = frame.msg.reference

\* Call r was made by a coroutine after a resume call of its own had
\* returned its response.
AfterResume(r) ==
    \E q \in 1..(r - 1) :
        /\ calls[q].proc = calls[r].proc
        /\ calls[q].cmd = "resume"
        /\ calls[q].fut = "result"
        /\ calls[q].resp.kind = "ok"

\* C13: a set_start_date call made after the first resume puts nothing on
\* the transport and does not change the recorded start date.
C13_StartDateFixedAfterResume ==
    /\ \A r \in Refs :
          (calls[r].cmd = "set-start-date" /\ AfterResume(r)) =>
              r \notin Emitted
    /\ (\A r \in Refs : calls[r].cmd = "set-start-date" => AfterResume(r)) =>
          start_date # "caller"

\* C14: on_tick is not invoked for a tick frame handled while the
\* simulation is paused.
C14_NoTickWhilePaused ==
    (frame.msg.type = "simulation-tick" /\ frame.paused) =>
        \A i \in 1..Len(frame.invoked) : frame.invoked[i] # "on_tick"

\* C15: a call made after the socket closed emits nothing.
C15_NoCommandAfterDisconnect ==
    \A r \in Refs : calls[r].conn = "down" => r \notin Emitted

\* C16: as long as no runtime has connected nothing is emitted and the
\* send-lock is neither held nor waited for, and a call that found no sid
\* has ended with an error without getting a reference.
C16_NoSidNoEmit ==
    /\ sid = NoSid =>
          /\ wire = <<>>
          /\ callbacks = {}
          /\ ~locked
          /\ waiters = <<>>
          /\ calls = <<>>
    /\ \A p \in Procs :
          outcome[p] = "sid_error" => (pc[p] = After(p) /\ cur[p] = NoRef)

\* A call was made before any runtime connected and raised.
C16_Witness ==
    /\ sid = NoSid
    /\ \E p \in Callers : outcome[p] = "sid_error"
    /\ callerCalls > 0

\* C17: for a simulation-event frame with an on_event hook set, on_event
\* is invoked exactly once, as the last step of the dispatch.
C17_OnEventOnceAndLast ==
    (EventFrame /\ "on_event" \in hooks) =>
        /\ frame.invoked # <<>>
        /\ frame.invoked[Len(frame.invoked)] = "on_event"
        /\ Cardinality({i \in 1..Len(frame.invoked) :
                           frame.invoked[i] = "on_event"}) = 1

\* C18: a simulation-event frame whose reference is that of a command sent
\* with a future resolves the future and invokes no specific hook, while
\* on_event, when set, is still invoked.
C18_MatchSkipsSpecificHooks ==
    (EventFrame /\ frame.msg.reference \in Emitted
        /\ calls[frame.msg.reference].ufut # "none") =>
        /\ calls[frame.msg.reference].ufut = "resolved"
        /\ frame.invoked = IF "on_event" \in hooks THEN <<"on_event">>
                           ELSE <<>>

\* C19: a simulation-event frame that matches no future and carries the
\* data of an event with a specific hook set gets that hook invoked first.
C19_SpecificHookInvoked ==
    (EventFrame /\ frame.msg.has_data
        /\ SpecificHook(frame.msg.event_name) \in hooks
        /\ (frame.msg.reference \in Emitted =>
               calls[frame.msg.reference].ufut = "none")) =>
        /\ frame.invoked # <<>>
        /\ Head(frame.invoked) = SpecificHook(frame.msg.event_name)
        /\ frame.reply.type = "simulation-event-response"

\* C20: handling a simulation-error frame invokes on_error and nothing
\* else: no command is emitted, and the connection id, the socket, the
\* send-lock and the pending futures stay as they were.
C20_ErrorFrameKeepsConnection ==
    [][(frame' # frame /\ frame'.msg.type = "simulation-error") =>
          /\ frame'.invoked = <<"on_error">>
          /\ sid' = sid
          /\ transport' = transport
          /\ wire' = wire
          /\ callbacks' = callbacks
          /\ locked' = locked
          /\ waiters' = waiters
          /\ event_futures' = event_futures
          /\ calls' = calls]_vars

\* An error frame was handled while a command held the send-lock.
C20_Witness ==
    /\ frame.msg.type = "simulation-error"
    /\ frame.invoked = <<"on_error">>
    /\ locked
    /\ callbacks # {}
    /\ transport = "up"

\* C23: the requests sent so far carry references that differ from one
\* another, and a response handed back to a caller carries the reference
\* of the request of that same call.
C23_ReferencesFreshAndEchoed ==
    /\ \A q, r \in Refs : q # r => calls[q].ref # calls[r].ref
    /\ \A i, j \in 1..Len(wire) :
          i # j => calls[wire[i]].ref # calls[wire[j]].ref
    /\ \A r \in Refs : calls[r].ret \in {NoRef, calls[r].ref}
    /\ \A p \in Procs :
          (outcome[p] = "ok" /\ cur[p] # NoRef) =>
              (calls[cur[p]].ret = calls[cur[p]].ref
                  /\ calls[cur[p]].resp.of = cur[p])

\* Two requests are on the transport and both calls returned a response.
C23_Witness ==
    /\ Len(wire) >= 2
    /\ calls[wire[1]].ret # NoRef
    /\ calls[wire[2]].ret # NoRef
    /\ calls[wire[1]].ret # calls[wire[2]].ret

\* C30: a reply that is not decodable JSON or that has an error field is
\* raised to the caller of send_message; only a reply without either is
\* returned as a response.  (A call whose wait already raised TypeError has
\* left before its reply arrives; it raised as well.)
C30_BadReplyIsRaised ==
    /\ \A r \in Refs : calls[r].ret # NoRef => calls[r].resp.kind = "ok"
    /\ \A p \in Procs :
          (cur[p] # NoRef /\ pc[p] = After(p)
              /\ calls[cur[p]].fut = "result") =>
              /\ calls[cur[p]].resp.kind = "error" =>
                    outcome[p] \in {"runtime_error", "type_error"}
              /\ calls[cur[p]].resp.kind = "badjson" =>
                    outcome[p] \in {"json_error", "type_error"}
              /\ outcome[p] = "ok" => calls[cur[p]].resp.kind = "ok"

\* One caller got the runtime's error raised, another a JSON decoding error.
C30_Witness ==
    \E p, q \in Callers :
        /\ outcome[p] = "runtime_error"
        /\ outcome[q] = "json_error"
        /\ calls[cur[p]].ret = NoRef
        /\ calls[cur[q]].ret = NoRef

\* The error field of a response names an error: neither None nor "".
Populated(err) == err # <<>> /\ err # <<"">>

\* C21: on a bridge where no hook was registered, a well-formed tick, event
\* or error frame is handled silently: no hook is reported missing and no
\* error envelope is returned.
C21_AbsentHookIsSilent ==
    (/\ hooks = DefaultHooks
     /\ frame.routed
     /\ frame.msg.shape_ok
     /\ frame.custom = "none"
     /\ frame.msg.type \in {"simulation-tick", "simulation-event",
                            "simulation-error"})
        => /\ frame.reply.type # "error"
           /\ frame.invoked \in {<<>>, <<"on_error">>}

\* C24: a request that reached an agent endpoint is answered with a
\* response that carries the request's reference, and when the agent raised
\* or reported a generation error the response's error field is populated.
C24_AgentFailureInResponse ==
    (frame.routed /\ frame.msg.shape_ok /\ frame.endpoint \in AgentEndpoints)
        => /\ frame.reply.type = "response"
           /\ frame.reply.reference = frame.msg.reference
           /\ frame.custom # "none" => Populated(frame.reply.error)

\* C27: the step in which run installs its defaults leaves every route that
\* was registered before it as it was, and gives each agent message type
\* without a route the default agent endpoint.
C27_RunKeepsRegisteredRoutes ==
    [][(serving = "init" /\ serving' = "serving") =>
          /\ \A t \in DOMAIN routes : routes'[t] = routes[t]
          /\ DOMAIN routes' = DOMAIN routes \cup AgentTypes
          /\ \A t \in AgentTypes \ DOMAIN routes :
                routes'[t] = EndpointFor(t)]_vars

\* External code registered its own generate-actions endpoint, run then
\* added only the conversation default, and a generate-actions request was
\* handled by the external endpoint.
C27_Witness ==
    /\ serving = "serving"
    /\ lastRoute = [type |-> "generate-conversation",
                    endpoint |-> "TGConversationEndpoint"]
    /\ routes["generate-actions"] = "CustomEndpoint"
    /\ frame.msg.type = "generate-actions"
    /\ frame.endpoint = "CustomEndpoint"

\* C28: the routes are a map from message type to one endpoint, the type of
\* the last add_route call maps to the endpoint of that call, and a frame
\* with a route was handed to one endpoint.
C28_OneRoutePerType ==
    /\ DOMAIN routes \subseteq DOMAIN InitialRoutes \cup AddableTypes
    /\ lastRoute # NoRoute =>
          /\ lastRoute.type \in DOMAIN routes
          /\ routes[lastRoute.type] = lastRoute.endpoint
    /\ frame.routed =>
          frame.endpoint \in {"CustomEndpoint"} \cup AgentEndpoints
                                 \cup {InitialRoutes[t] : t \in DOMAIN InitialRoutes}

\* A generate-actions request was handled by the default endpoint, and the
\* route was then replaced by an endpoint of external code.
C28_Witness ==
    /\ frame.msg.type = "generate-actions"
    /\ frame.endpoint = "TGActionsEndpoint"
    /\ lastRoute = [type |-> "generate-actions",
                    endpoint |-> "CustomEndpoint"]
    /\ routes["generate-actions"] = "CustomEndpoint"

\* C29: once serving has ended, by a stop or by an exception, the runtime
\* process the bridge started is not running.
C29_NoProcessAfterServing ==
    serving \in {"stopped", "raised"} => process # "running"

C25_OneTickAtATime ==
    \A t, u \in TickTasks :
        (t # u /\ pc[t] = "wait") => pc[u] = "idle"

\* C26: a simulation-event frame that carries the reference of a command
\* the on_ready hook sent with a future is handled without an error while
\* the handler of the ready frame has not finished, and it resolves that
\* future, so that the hook awaiting it goes on.
C26_MatchingFrameResumesHook ==
    (/\ EventFrame
     /\ frame.msg.reference \in Emitted
     /\ calls[frame.msg.reference].by = "hook"
     /\ calls[frame.msg.reference].ufut # "none") =>
        /\ frame.reply.type # "error"
        /\ calls[frame.msg.reference].ufut = "resolved"

\* C31: the step in which the acknowledgement of a call that has timed out
\* arrives raises nothing, changes the future of no call, and changes
\* neither the position nor the outcome of any coroutine.
C31_LateAckIsInert ==
    [][\A r \in callbacks :
          (r \notin callbacks' /\ calls[r].fut = "cancelled") =>
              /\ calls' = calls
              /\ lockFault' = lockFault
              /\ pc' = pc
              /\ outcome' = outcome
              /\ wire' = wire]_vars

\* A call timed out, its command stayed on the transport, and its
\* acknowledgement has arrived since: the caller still has the timeout.
C31_Witness ==
    \E p \in Callers :
        /\ outcome[p] = "timeout"
        /\ calls[cur[p]].fut = "cancelled"
        /\ cur[p] \in Emitted
        /\ cur[p] \notin callbacks
        /\ ~lockFault

\* C32: the step in which sio.emit raises leaves the emit lock free and
\* raises nothing but the emit's error, and whenever the lock is free with
\* coroutines queued on it the first of them can take it.
C32_EmitErrorReleasesLock ==
    /\ [][\A p \in Procs :
             (pc[p] = "emit" /\ outcome'[p] = "emit_error") =>
                 /\ locked
                 /\ ~locked'
                 /\ lockFault' = lockFault
                 /\ callbacks' = callbacks]_vars
    /\ [](( ~locked /\ waiters # <<>>) => ENABLED Acquired(NextWaiter))

\* The emit of one caller raised and a later call of another caller has
\* emitted its command.
C32_Witness ==
    \E p, q \in Callers :
        /\ outcome[p] = "emit_error"
        /\ cur[q] \in Emitted
        /\ cur[q] > cur[p]

C34_LockHeldUntilCallback ==
    /\ \A r \in callbacks : locked /\ r \in Emitted
    /\ \A p \in Procs : pc[p] = "emit" => (locked /\ callbacks = {})
    /\ \A q, r \in callbacks : q = r
    /\ \A p, q \in Procs : (pc[p] = "emit" /\ pc[q] = "emit") => p = q

\* A call has timed out, its command is still unacknowledged and the lock
\* still held, and another caller is queued on the lock.
C34_Witness ==
    \E p, q \in Callers :
        /\ outcome[p] = "timeout"
        /\ cur[p] \in callbacks
        /\ locked
        /\ pc[q] = "acquire"

InFlight == {p \in Procs : pc[p] \in {"acquire", "emit", "wait"}}

\* C36: with every emitted command acknowledged and coroutines scheduled
\* fairly, a coroutine inside send_message eventually leaves it, a held
\* lock is eventually free, and the lock is free whenever no coroutine is
\* inside send_message and no acknowledgement is outstanding.
C36_EveryCallEnds ==
    /\ \A p \in Callers : (p \in InFlight) ~> (p \notin InFlight)
    /\ locked ~> ~locked
    /\ []((InFlight = {} /\ callbacks = {}) => ~locked)

\* A caller that had to queue behind the held lock of a timed-out call has
\* got its response; nothing is in flight and the lock is free.
C36_Witness ==
    \E p, q \in Callers :
        /\ outcome[p] = "timeout"
        /\ outcome[q] = "ok"
        /\ cur[q] > cur[p]
        /\ InFlight = {}
        /\ callbacks = {}
        /\ ~locked

\* The pause call r of the ready handler timed out or got a reply that is
\* an error or cannot be decoded.
PauseFailure(r) ==
    \/ calls[r].fut = "cancelled"
    \/ calls[r].fut = "result" /\ calls[r].resp.kind # "ok"

\* C37: when the ready handler's pause has failed, the on_ready hook is not
\* called, the handler makes no further call (no resume), and once the
\* handler has ended the ready frame is answered with the error envelope.
C37_FailedPauseEndsReady ==
    \A r \in HandlerCalls("pause") :
        PauseFailure(r) =>
            /\ rstage \in {"pause", "failed"}
            /\ hookResult = "none"
            /\ hookCalls = 0
            /\ HandlerCalls("resume") = {}
            /\ \A q \in Refs : q > r => calls[q].proc # Ready
            /\ rstage = "failed" =>
                  /\ readyResp.type = "error"
                  /\ Head(readyResp.error) = "Error processing request: "

\* With an on_ready hook set, the pause timed out and the ready frame has
\* been answered with the error envelope.
C37_Witness ==
    /\ "on_ready" \in hooks
    /\ rstage = "failed"
    /\ readyResp.type = "error"
    /\ \E r \in HandlerCalls("pause") : calls[r].fut = "cancelled"

\* C38: a simulation-ready frame whose runtime_version is neither
\* "local.build" nor starts with the required version makes the handler
\* raise before it sends anything: no call is made for that frame (no
\* pause, no resume), the hook is not called, and the frame is answered
\* with the error envelope naming the version.
C38_WrongVersionRejected ==
    (/\ readyCount > 0
     /\ runtime_version # <<"local.build">>
     /\ ~StartsWith(runtime_version, RequiredVersion)) =>
        /\ rstage = "failed"
        /\ \A r \in Refs :
              ~(calls[r].proc = Ready /\ calls[r].frame = readyCount)
        /\ pc[Ready] = "idle"
        /\ hookResult = "none"
        /\ hookCalls = 0
        /\ readyResp =
              ErrorEnvelope(ProcessingError(
                  <<"Incorrect Runtime version detected">>))

\* A ready frame of version 1.46.0 arrived at a bridge with an on_ready
\* hook and was answered with the error envelope.
C38_Witness ==
    /\ "on_ready" \in hooks
    /\ readyCount > 0
    /\ runtime_version = <<"1.46.0">>
    /\ rstage = "failed"
    /\ readyResp.type = "error"
    /\ wire = <<>>

\* C39: runtime.start_date holds the date of a set_start_date call only if
\* such a call has returned a response, and it changes only in the step in
\* which a set-start-date call returns its error-free response (or a
\* simulation-ready frame brings the runtime's own date); a call that timed
\* out or got an error leaves it as it was.
C39_StartDateSetOnSuccess ==
    /\ [](start_date = "caller" =>
            \E r \in Refs : /\ calls[r].cmd = "set-start-date"
                            /\ calls[r].ret = calls[r].ref
                            /\ calls[r].resp.kind = "ok")
    /\ [][start_date' # start_date =>
            \/ readyCount' # readyCount
            \/ \E p \in Procs :
                  /\ pc[p] = "wait"
                  /\ calls[cur[p]].cmd = "set-start-date"
                  /\ calls[cur[p]].resp.kind = "ok"
                  /\ outcome'[p] = "ok"]_vars

\* One set-start-date call got an error reply and the date is still unset.
C39_Witness ==
    /\ outcome[Script] = "runtime_error"
    /\ calls[cur[Script]].cmd = "set-start-date"
    /\ start_date = "unset"

\* C40: after any sequence of start and terminate calls at most one child
\* process is alive; a start while the child is running spawns nothing and
\* leaves the handle; a terminate with no live child changes nothing and
\* raises nothing.
C40_OneLiveChild ==
    /\ [](children <= 1)
    /\ [](children = 1 => process = "running")
    /\ [][(processCall' # processCall /\ processCall'.op = "start"
             /\ process = "running") =>
            /\ children' = children
            /\ process' = process
            /\ ~processCall'.raised]_vars
    /\ [][(processCall' # processCall /\ processCall'.op = "terminate"
             /\ process # "running") =>
            /\ children' = children
            /\ process' = process
            /\ ~processCall'.raised]_vars

\* start was called while the child was running, and one child is alive.
C40_Witness ==
    /\ processCall.op = "start"
    /\ processCall.spawned = 0
    /\ ~processCall.raised
    /\ process = "running"
    /\ children = 1
    /\ serving = "serving"

====
